---------------------------- MODULE Spec2Model ----------------------------
(***************************************************************************)
(* A model of the CPUGPU plugin for LCDSmartie (src/CPUGPU.cpp).           *)
(*                                                                         *)
(* The plugin keeps two pieces of process-wide state, the flag             *)
(* nvmlInitialized and the handle HardwareMonitor::computer, and exports   *)
(* SmartieInit, SmartieFini, GetMinRefreshInterval, function1 (CPU         *)
(* metrics) and function2 (GPU metrics).  The host calls them one at a     *)
(* time, so every exported function is one atomic action.                  *)
(*                                                                         *)
(* C strings are TLA+ strings; snprintf is modelled by what it writes,     *)
(* character by character.                                                 *)
(***************************************************************************)
EXTENDS Integers, Sequences, FiniteSets, TLC

VARIABLES
    isAdmin,          \* what IsRunningAsAdmin() answers for this process
    tree,             \* the hardware the machine presents to LibreHardwareMonitor
    nvmlInitialized,  \* static bool nvmlInitialized
    computer,         \* HardwareMonitor::computer
    openTrees,        \* Computer objects opened and not yet closed
    notices,          \* MessageBoxA calls made so far, by caption
    call,             \* the exported function called last, its inputs and effects
    ret               \* the string the last call returned

vars == <<isAdmin, tree, nvmlInitialized, computer, openTrees, notices, call, ret>>

---------------------------------------------------------------------------
(* Bounds of the model.                                                    *)

\* MessageBoxA calls a behaviour may make in total.
MaxNotices == 2
\* Fan indices 0..MaxFanIndex are looked up beside the configured one.
MaxFanIndex == 5

---------------------------------------------------------------------------
(* Program constants.                                                      *)

CPU_FAN == 2
CPU_SPEED == 1800
\* sizeof(tempStr)
BufSize == 256
\* NVML_CLK_THROTTLE_REASON_RELIABILITY, 0x4
ThrottleReliability == 4

---------------------------------------------------------------------------
(* Strings and snprintf.                                                   *)

Min(a, b) == IF a < b THEN a ELSE b

\* snprintf(buf, bufSize, ...) keeps at most bufSize - 1 characters.
Snprintf(bufSize, s) == SubSeq(s, 1, Min(Len(s), bufSize - 1))

EndsWith(s, suffix) ==
    /\ Len(s) >= Len(suffix)
    /\ SubSeq(s, Len(s) - Len(suffix) + 1, Len(s)) = suffix

\* String::Contains
Contains(s, needle) ==
    \E i \in 1..(Len(s) - Len(needle) + 1) :
        SubSeq(s, i, i + Len(needle) - 1) = needle

DigitChar(d) == SubSeq("0123456789", d + 1, d + 1)

\* printf("%u", n) for n >= 0.
RECURSIVE FormatU(_)
FormatU(n) == IF n < 10 THEN DigitChar(n) ELSE FormatU(n \div 10) \o DigitChar(n % 10)

\* n digits of k, zero padded on the left.
RECURSIVE Pad(_, _)
Pad(k, n) == IF n = 0 THEN "" ELSE Pad(k \div 10, n - 1) \o DigitChar(k % 10)

Pow10(n) == IF n = 1 THEN 10 ELSE 100

\* printf("%.<decimals>f", num / den) for num >= 0, den > 0, decimals in
\* {1, 2}: the decimal nearest to the quotient.  The inputs of the model
\* keep clear of exact ties, where the binary value of the float decides.
FormatF(num, den, decimals) ==
    LET scaled == (2 * num * Pow10(decimals) + den) \div (2 * den)
    IN  FormatU(scaled \div Pow10(decimals)) \o "." \o Pad(scaled % Pow10(decimals), decimals)

---------------------------------------------------------------------------
(* IEEE-754 single precision, for the fan percentage.  A positive float    *)
(* is <<m, e>> with 2^23 <= m < 2^24 and value m * 2^e.                    *)

RECURSIVE Pow2(_)
Pow2(n) == IF n = 0 THEN 1 ELSE 2 * Pow2(n - 1)

\* 2^23 and 2^24: a float's mantissa has 24 bits.
MantLo == Pow2(23)
MantHi == Pow2(24)

\* Round-to-nearest-even of m + rem/unit, 0 <= rem < unit.
RoundEven(m, rem, unit) ==
    IF 2 * rem > unit \/ (2 * rem = unit /\ m % 2 = 1) THEN m + 1 ELSE m

Normal(m, e) == IF m = MantHi THEN <<MantLo, e + 1>> ELSE <<m, e>>

\* Long division: shift quotient bits in until the mantissa has 24 bits.
RECURSIVE DivBits(_, _, _, _)
DivBits(m, r, den, e) ==
    IF m >= MantLo
    THEN Normal(RoundEven(m, r, den), e)
    ELSE DivBits(2 * m + (IF 2 * r >= den THEN 1 ELSE 0), (2 * r) % den, den, e - 1)

\* float(num) / float(den) for integers 0 < num, 0 < den, quotient < 2^24.
DivF32(num, den) == DivBits(num \div den, num % den, den, 0)

RECURSIVE ShiftFor(_)
ShiftFor(p) == IF p < MantHi THEN 0 ELSE 1 + ShiftFor(p \div 2)

\* f * float(k) for a small positive integer k (the product m * k fits).
MulF32(f, k) ==
    LET p == f[1] * k
        s == ShiftFor(p)
    IN  Normal(RoundEven(p \div Pow2(s), p % Pow2(s), Pow2(s)), f[2] + s)

\* static_cast<int>(f) for a positive float below 2^31.
TruncF32(f) == IF f[2] >= 0 THEN f[1] * Pow2(f[2]) ELSE f[1] \div Pow2(0 - f[2])


---------------------------------------------------------------------------
(* The hardware tree of LibreHardwareMonitor.  A tree is a sequence of     *)
(* top-level hardware nodes [type, sensors, sub]; a sub-hardware node is   *)
(* [type, sensors]; a sensor is [type, name].  A sensor's Value is a       *)
(* Nullable<float>: <<>> (no value) or <<n>>, n the reading in halves      *)
(* (n = 3 is 1.5), which a float holds exactly.  Update() refreshes the    *)
(* values before every read, so a read sees whatever the hardware reports  *)
(* at that moment: the value is an input of the query, not kept state.     *)

Sensor(t, n) == [type |-> t, name |-> n]
SubHw(t, s) == [type |-> t, sensors |-> s]
Hw(t, s, sub) == [type |-> t, sensors |-> s, sub |-> sub]

\* A desktop: the CPU with all four sensors behind decoys of the wrong type
\* or name, a motherboard whose Super I/O chip carries four fans.
TreeDesktop ==
    << Hw("Cpu",
          << Sensor("Load", "CPU Core #1"),
             Sensor("Temperature", "CPU Total"),
             Sensor("Load", "CPU Total"),
             Sensor("Clock", "Bus Speed"),
             Sensor("Power", "CPU Cores"),
             Sensor("Power", "CPU Package"),
             Sensor("Temperature", "Core (Tctl/Tdie)"),
             Sensor("Temperature", "CPU Package"),
             Sensor("Clock", "CPU Core #1") >>,
          << >>),
       Hw("Motherboard", << >>,
          << SubHw("SuperIO",
                << Sensor("Temperature", "Temperature #1"),
                   Sensor("Fan", "Fan #1"),
                   Sensor("Fan", "Fan #2"),
                   Sensor("Control", "Fan #3"),
                   Sensor("Fan", "Fan #3"),
                   Sensor("Fan", "Fan #4") >>) >>) >>

\* A laptop: the CPU has no temperature sensor, its load sensor is spelled
\* in lower case and its power sensor is named "Package" alone; "CPU Total"
\* and one fan sit on the motherboard node itself, two fans on its
\* embedded controller.
TreeLaptop ==
    << Hw("Motherboard", << Sensor("Load", "CPU Total"), Sensor("Fan", "Fan #0") >>,
          << SubHw("EmbeddedController",
                << Sensor("Fan", "Fan #1"), Sensor("Fan", "Fan #2") >>) >>),
       Hw("Cpu",
          << Sensor("Clock", "CPU Core #1"),
             Sensor("Load", "cpu total"),
             Sensor("Power", "Package") >>,
          << >>) >>

\* Two CPU packages, the sensors on the second; fans spread over two chips
\* of the motherboard and one sub-hardware node of the second CPU.
TreeServer ==
    << Hw("Cpu", << Sensor("Load", "CPU Core #1") >>, << >>),
       Hw("Motherboard", << Sensor("Fan", "Chassis") >>,
          << SubHw("SuperIO", << Sensor("Fan", "Fan #1") >>),
             SubHw("SuperIO", << Sensor("Voltage", "Vcore"), Sensor("Fan", "Fan #2") >>) >>),
       Hw("Cpu",
          << Sensor("Load", "CPU Total"),
             Sensor("Power", "CPU Package Power"),
             Sensor("Temperature", "CPU Package"),
             Sensor("Clock", "CPU Core #1") >>,
          << SubHw("Cooler", << Sensor("Fan", "Pump") >>) >>) >>

\* Monitoring found nothing.
TreeEmpty == << >>

Trees == {TreeDesktop, TreeLaptop, TreeServer, TreeEmpty}

\* Readings a sensor may report after Update(), in halves; <<>> is a
\* sensor without a value.
SensorValues ==
    { << >>, <<-3>>, <<-1>>, <<0>>, <<85>>, <<1908>>, <<3600>> }

\* A sensor without a value read as the not-found sentinel -1.0, as the
\* comments of the lookups have it ("or the value is unavailable").
GetValueOrDefault_Sentinel(value, d) == IF value = << >> THEN -2 ELSE value[1]

\* Nullable<float>::GetValueOrDefault(d)
GetValueOrDefault(value, d) == IF value = << >> THEN d ELSE value[1]

\* static_cast<int>(float) of a reading in halves: towards zero.
ToInt(halves) == IF halves >= 0 THEN halves \div 2 ELSE 0 - ((0 - halves) \div 2)

\* The path <<i, j>> of the sensor the scan of the CPU nodes returns from:
\* the first sensor of the wanted type and name in the first CPU node
\* that has one; <<>> when the scan ends without a match.
NameMatches(sensorName, name, contains) ==
    IF contains THEN Contains(sensorName, name) ELSE sensorName = name

CpuMatches(hw, type, name, contains) ==
    UNION { { <<i, j>> : j \in { k \in DOMAIN hw[i].sensors :
                /\ hw[i].sensors[k].type = type
                /\ NameMatches(hw[i].sensors[k].name, name, contains) } } :
            i \in { h \in DOMAIN hw : hw[h].type = "Cpu" } }

Before2(p, q) == p[1] < q[1] \/ (p[1] = q[1] /\ p[2] < q[2])

CpuSensor(hw, type, name, contains) ==
    LET ms == CpuMatches(hw, type, name, contains)
    IN  IF ms = {} THEN << >>
        ELSE CHOOSE p \in ms : \A q \in ms : q = p \/ Before2(p, q)


\* The Fan-type sensors of the sub-hardware nodes, as paths <<i, s, k>>
\* (top-level node, sub-hardware node, sensor), in the order the three
\* nested loops meet them.
FansOfSub(hw, i, s) ==
    SelectSeq([k \in DOMAIN hw[i].sub[s].sensors |-> <<i, s, k>>],
              LAMBDA p : hw[i].sub[s].sensors[p[3]].type = "Fan")

RECURSIVE FansFromSub(_, _, _)
FansFromSub(hw, i, s) ==
    IF s > Len(hw[i].sub) THEN << >>
    ELSE FansOfSub(hw, i, s) \o FansFromSub(hw, i, s + 1)

RECURSIVE FansFrom(_, _)
FansFrom(hw, i) ==
    IF i > Len(hw) THEN << >>
    ELSE FansFromSub(hw, i, 1) \o FansFrom(hw, i + 1)

\* currentFanIndex started at 1: the index taken as a one-based position.
FanSensor_OneBased(hw, fanIndex) ==
    LET fans == FansFrom(hw, 1)
    IN  IF fanIndex \in DOMAIN fans THEN fans[fanIndex] ELSE << >>

\* The sensor at which currentFanIndex == fanIndex; <<>> when the loops end
\* first.
FanSensor(hw, fanIndex) ==
    LET fans == FansFrom(hw, 1)
    IN  IF fanIndex + 1 \in DOMAIN fans THEN fans[fanIndex + 1] ELSE << >>

---------------------------------------------------------------------------
(* The CPU lookups.  hw is computer->Hardware, value the Value the sensor  *)
(* found holds after Update().  Float results are in halves.               *)

GetCpuLoad(hw, value) ==
    IF CpuSensor(hw, "Load", "CPU Total", FALSE) = << >> THEN -1
    ELSE ToInt(GetValueOrDefault(value, 0))

GetCpuPower(hw, value) ==
    IF CpuSensor(hw, "Power", "Package", TRUE) = << >> THEN -1
    ELSE ToInt(GetValueOrDefault(value, 0))

GetCpuTemperature(hw, value) ==
    IF CpuSensor(hw, "Temperature", "CPU Package", FALSE) = << >> THEN -1
    ELSE ToInt(GetValueOrDefault(value, 0))

\* static_cast<int>(currentSpeed / maxFanSpeed) * 100: the cast applied to
\* the quotient instead of the product.
FanPercent_CastFirst(currentSpeed, maxFanSpeed) ==
    (ToInt(currentSpeed) \div maxFanSpeed) * 100

\* static_cast<int>((currentSpeed / maxFanSpeed) * 100.0f) in single
\* precision, currentSpeed /= 0 in halves.  Rounding to nearest and the
\* cast are both symmetric about zero.
FanPercent(currentSpeed, maxFanSpeed) ==
    LET abs == IF currentSpeed < 0 THEN 0 - currentSpeed ELSE currentSpeed
        pct == TruncF32(MulF32(DivF32(abs, 2 * maxFanSpeed), 100))
    IN  IF currentSpeed < 0 THEN 0 - pct ELSE pct

GetCpuFanSpeed(hw, fanIndex, maxFanSpeed, value) ==
    IF FanSensor(hw, fanIndex) = << >> THEN -1
    ELSE LET currentSpeed == GetValueOrDefault(value, 0)
         IN  IF currentSpeed = 0 THEN 0
             ELSE FanPercent(currentSpeed, maxFanSpeed)

GetCpuFanSpeedRPM(hw, fanIndex, maxFanSpeed, value) ==
    IF FanSensor(hw, fanIndex) = << >> THEN -1
    ELSE ToInt(GetValueOrDefault(value, 0))

\* Returns a float, in halves: -2 is -1.0.
GetCpuFrequency(hw, value) ==
    IF CpuSensor(hw, "Clock", "CPU Core #1", FALSE) = << >> THEN -2
    ELSE GetValueOrDefault(value, 0)

---------------------------------------------------------------------------
(* function1: the CPU metrics.                                             *)

\* strncmp(a, b, strlen(b)) == 0: a comparison of the name's length only.
StrEq_Prefix(a, b) == Len(a) >= Len(b) /\ SubSeq(a, 1, Len(b)) = b

\* strcmp(a, b) == 0
StrEq(a, b) == a = b

\* showUnits left set whatever param2 is.
ShowUnits_Always(param2) == TRUE

\* bool showUnits = (strcmp(param2, "1") == 0)
ShowUnits(param2) == StrEq(param2, "1")

\* snprintf(tempStr, sizeof(tempStr), showUnits ? "<body><unit>" : "<body>")
Reading(showUnits, body, unit) ==
    Snprintf(BufSize, IF showUnits THEN body \o unit ELSE body)

CpuNames == {"Load", "Power", "Temp", "Fan_RPM", "Fan", "Clock"}

\* Whether function1 takes one of its six branches, each of which starts
\* with a lookup, which starts with HardwareMonitor::Initialize().
CpuLookupCalled(param1) == \E n \in CpuNames : StrEq(param1, n)

\* The sensor the lookup of the branch taken returns from; <<>> when it
\* finds none or no branch is taken.
CpuSensorRead(hw, param1) ==
    IF StrEq(param1, "Load") THEN CpuSensor(hw, "Load", "CPU Total", FALSE)
    ELSE IF StrEq(param1, "Power")
        THEN CpuSensor(hw, "Power", "Package", TRUE)
    ELSE IF StrEq(param1, "Temp")
        THEN CpuSensor(hw, "Temperature", "CPU Package", FALSE)
    ELSE IF StrEq(param1, "Fan_RPM") THEN FanSensor(hw, CPU_FAN)
    ELSE IF StrEq(param1, "Fan") THEN FanSensor(hw, CPU_FAN)
    ELSE IF StrEq(param1, "Clock")
        THEN CpuSensor(hw, "Clock", "CPU Core #1", FALSE)
    ELSE << >>

function1(hw, param1, param2, value) ==
    LET showUnits == ShowUnits(param2)
    IN  IF StrEq(param1, "Load") THEN
            LET load == GetCpuLoad(hw, value)
            IN  IF load < 0 THEN Snprintf(BufSize, "Error reading CPU Load")
                ELSE Reading(showUnits, FormatU(load), "%")
        ELSE IF StrEq(param1, "Power") THEN
            LET tdp == GetCpuPower(hw, value)
            IN  IF tdp < 0 THEN Snprintf(BufSize, "Error reading CPU Power")
                ELSE Reading(showUnits, FormatU(tdp), "W")
        ELSE IF StrEq(param1, "Temp") THEN
            LET temp == GetCpuTemperature(hw, value)
            IN  IF temp < 0 THEN Snprintf(BufSize, "Error reading CPU Temp")
                ELSE Reading(showUnits, FormatU(temp), "°C")
        ELSE IF StrEq(param1, "Fan_RPM") THEN
            LET fanSpeedRPM == GetCpuFanSpeedRPM(hw, CPU_FAN, CPU_SPEED, value)
            IN  IF fanSpeedRPM < 0 THEN Snprintf(BufSize, "Error reading Fan Speed")
                ELSE Reading(showUnits, FormatU(fanSpeedRPM), "RPM")
        ELSE IF StrEq(param1, "Fan") THEN
            LET fanSpeed == GetCpuFanSpeed(hw, CPU_FAN, CPU_SPEED, value)
            IN  IF fanSpeed < 0 THEN Snprintf(BufSize, "Error reading Fan Speed")
                ELSE Reading(showUnits, FormatU(fanSpeed), "%")
        ELSE IF StrEq(param1, "Clock") THEN
            LET clock == GetCpuFrequency(hw, value)
            IN  IF clock < 0 THEN Snprintf(BufSize, "Error reading CPU clock")
                ELSE Reading(showUnits, FormatF(clock, 2000, 2), "GHz")
        ELSE Snprintf(BufSize, "Invalid parameter")

---------------------------------------------------------------------------
(* function2: the GPU metrics.  The vendor library is an input: the status *)
(* each NVML call returns and the raw value it writes.  A raw value is     *)
(* [value, total]: the scalar the call writes (total is unused and set to  *)
(* 1), or memInfo.used and memInfo.total, carried in MiB (both quotients   *)
(* function2 forms are the same in bytes and in MiB for whole MiB).        *)

\* What nvmlInit, nvmlDeviceGetHandleByIndex and the queries may return.
NvmlInitStatuses == {"NVML_SUCCESS", "NVML_ERROR_DRIVER_NOT_LOADED"}
NvmlHandleStatuses == {"NVML_SUCCESS", "NVML_ERROR_GPU_IS_LOST"}
NvmlQueryStatuses == {"NVML_SUCCESS", "NVML_ERROR_NOT_SUPPORTED"}

nvmlErrorString(result) ==
    CASE result = "NVML_SUCCESS" -> "Success"
      [] result = "NVML_ERROR_NOT_SUPPORTED" -> "Not Supported"
      [] result = "NVML_ERROR_GPU_IS_LOST" -> "GPU is lost"
      [] result = "NVML_ERROR_DRIVER_NOT_LOADED" -> "Driver Not Loaded"
      [] OTHER -> "Unknown Error"

Raw(v) == [value |-> v, total |-> 1]
Mem(used, total) == [value |-> used, total |-> total]
NoRaw == Raw(0)

GpuNames ==
    {"Temp", "Limit", "Fan", "Power", "Clock", "Mem_Clock", "Mem_Alloc", "Mem_Usage", "Load"}

\* What the vendor call of a metric may write on success.
GpuRaw(param1) ==
    CASE param1 = "Temp" -> {Raw(65)}
      [] param1 = "Limit" -> {Raw(6), Raw(10)}
      [] param1 = "Fan" -> {Raw(0)}
      [] param1 = "Power" ->
            {Raw(499), Raw(500), Raw(123456), Raw(123500), Raw(2147480647)}
      [] param1 = "Clock" -> {Raw(1905)}
      [] param1 = "Mem_Clock" -> {Raw(7001)}
      [] param1 = "Mem_Alloc" -> {Mem(3000, 8192)}
      [] param1 = "Mem_Usage" -> {Mem(2048, 8192)}
      [] param1 = "Load" -> {Raw(99)}
      [] OTHER -> {NoRaw}

\* checkNvmlInitialized without its test of the flag.
checkNvmlInitialized_Ungated(initialized) == [ok |-> TRUE, errorMsg |-> ""]

\* bool checkNvmlInitialized(char* errorMsg, size_t bufSize)
checkNvmlInitialized(initialized) ==
    IF ~initialized
    THEN [ok |-> FALSE, errorMsg |-> Snprintf(BufSize, "NVML not initialized")]
    ELSE [ok |-> TRUE, errorMsg |-> ""]

\* (unsigned int)(power / 1000.0): the + 0.5 forgotten.
GpuPowerWatts_Truncated(power) == power \div 1000

\* (unsigned int)(power / 1000.0 + 0.5): the double holds power / 1000 to
\* well under a thousandth, so the sum truncates as the exact one does.
GpuPowerWatts(power) == (power + 500) \div 1000

\* throttleReasons & NVML_CLK_THROTTLE_REASON_RELIABILITY
ReliabilityBit(throttleReasons) == (throttleReasons \div ThrottleReliability) % 2 = 1

GpuError(what, status) == Snprintf(BufSize, what \o ": " \o nvmlErrorString(status))

\* One branch of function2: the vendor call made, the message of its
\* failure and the string of its success.
GpuBranch(callName, what, status, good) ==
    [ret |-> IF status /= "NVML_SUCCESS" THEN GpuError(what, status) ELSE good,
     vendor |-> <<"nvmlDeviceGetHandleByIndex", callName>>]

\* [ret: the string returned, vendor: the NVML calls made, in order].
function2(initialized, param1, param2, handleStatus, status, raw) ==
    LET check == checkNvmlInitialized(initialized)
        showUnits == ShowUnits(param2)
    IN  IF ~check.ok THEN [ret |-> check.errorMsg, vendor |-> << >>]
        ELSE IF handleStatus /= "NVML_SUCCESS" THEN
            [ret |-> GpuError("GPU handle error", handleStatus),
             vendor |-> <<"nvmlDeviceGetHandleByIndex">>]
        ELSE IF StrEq(param1, "Temp") THEN
            GpuBranch("nvmlDeviceGetTemperature", "Error getting temp", status,
                      Reading(showUnits, FormatU(raw.value), "°C"))
        ELSE IF StrEq(param1, "Limit") THEN
            GpuBranch("nvmlDeviceGetCurrentClocksThrottleReasons",
                      "Error getting throttle reasons", status,
                      Snprintf(BufSize, IF ReliabilityBit(raw.value) THEN "!" ELSE " "))
        ELSE IF StrEq(param1, "Fan") THEN
            GpuBranch("nvmlDeviceGetFanSpeed", "Error getting fan speed", status,
                      Reading(showUnits, FormatU(raw.value), "%"))
        ELSE IF StrEq(param1, "Power") THEN
            GpuBranch("nvmlDeviceGetPowerUsage", "Error getting power usage", status,
                      Reading(showUnits, FormatU(GpuPowerWatts(raw.value)), "W"))
        ELSE IF StrEq(param1, "Clock") THEN
            GpuBranch("nvmlDeviceGetClock", "Error getting GPU clock", status,
                      Reading(showUnits, FormatF(raw.value, 1000, 2), "GHz"))
        ELSE IF StrEq(param1, "Mem_Clock") THEN
            GpuBranch("nvmlDeviceGetClock", "Error getting Memory clock", status,
                      Reading(showUnits, FormatF(raw.value, 1000, 2), "GHz"))
        ELSE IF StrEq(param1, "Mem_Alloc") THEN
            GpuBranch("nvmlDeviceGetMemoryInfo", "Error getting memory usage", status,
                      Reading(showUnits, FormatF(raw.value, 1024, 1), "Gb"))
        ELSE IF StrEq(param1, "Mem_Usage") THEN
            GpuBranch("nvmlDeviceGetMemoryInfo", "Error getting memory usage", status,
                      Reading(showUnits, FormatU((raw.value * 100) \div raw.total), "%"))
        ELSE IF StrEq(param1, "Load") THEN
            GpuBranch("nvmlDeviceGetUtilizationRates", "Error getting GPU load", status,
                      Reading(showUnits, FormatU(raw.value), "%"))
        ELSE [ret |-> Snprintf(BufSize, "Invalid parameter"),
              vendor |-> <<"nvmlDeviceGetHandleByIndex">>]

---------------------------------------------------------------------------
(* HardwareMonitor.  computer is "nullptr", "opened" (Open() returned) or  *)
(* "created" (gcnew Computer() was assigned and Open() threw, the case     *)
(* SmartieInit catches).  A Computer that was never opened lists no        *)
(* hardware.                                                               *)

\* Initialize() without its null check.
HardwareMonitor_Initialize_NoCheck(c, openThrows) ==
    [computer |-> IF openThrows THEN "created" ELSE "opened",
     opens |-> 1, threw |-> openThrows]

\* [computer: the handle afterwards, opens: calls of Open(), threw].
HardwareMonitor_Initialize(c, openThrows) ==
    IF c = "nullptr"
    THEN [computer |-> IF openThrows THEN "created" ELSE "opened",
          opens |-> 1, threw |-> openThrows]
    ELSE [computer |-> c, opens |-> 0, threw |-> FALSE]

\* [computer: the handle afterwards, closes: calls of Close() on it].
HardwareMonitor_Close(c) ==
    IF c /= "nullptr"
    THEN [computer |-> "nullptr", closes |-> 1]
    ELSE [computer |-> c, closes |-> 0]

\* computer->Hardware
Hardware(c, t) == IF c = "opened" THEN t ELSE << >>

\* Trees that Initialize() result `init` opened: Open() calls that returned.
Opened(init) == IF init.threw THEN 0 ELSE init.opens

\* Trees that Close() result `close` closed, the handle having been `before`.
Closed(close, before) == IF before = "opened" THEN close.closes ELSE 0

---------------------------------------------------------------------------
(* The exported functions.                                                 *)

NoCall ==
    [op |-> "none", param1 |-> "", param2 |-> "", threw |-> FALSE,
     opens |-> 0, closes |-> 0, vendor |-> << >>, sensor |-> << >>,
     value |-> << >>, handleStatus |-> "NVML_SUCCESS", status |-> "NVML_SUCCESS",
     raw |-> NoRaw]

Total(n) == n.admin + n.nvml + n.exception

\* The block without its if: nvmlInit() is called on every SmartieInit.
NvmlAttempt_Unguarded(initialized, nvmlResult) ==
    [initialized |-> initialized \/ nvmlResult = "NVML_SUCCESS", called |-> TRUE,
     notice |-> nvmlResult /= "NVML_SUCCESS"]

\* The if (!nvmlInitialized) block of SmartieInit:
\* [initialized: the flag afterwards, called: nvmlInit() was called,
\*  notice: the "NVML Init Failed" box was shown].
NvmlAttempt(initialized, nvmlResult) ==
    IF ~initialized
    THEN [initialized |-> nvmlResult = "NVML_SUCCESS", called |-> TRUE,
          notice |-> nvmlResult /= "NVML_SUCCESS"]
    ELSE [initialized |-> initialized, called |-> FALSE, notice |-> FALSE]

One(b) == IF b THEN 1 ELSE 0

SmartieInit ==
    \E nvmlResult \in NvmlInitStatuses, openThrows \in BOOLEAN :
        LET nv == NvmlAttempt(nvmlInitialized, nvmlResult)
            init == HardwareMonitor_Initialize(computer, openThrows)
            shown == [admin |-> notices.admin + One(~isAdmin),
                      nvml |-> notices.nvml + One(nv.notice),
                      exception |-> notices.exception + One(init.threw)]
        IN  /\ Total(shown) <= MaxNotices
            \* an input no call consumed is not a different step
            /\ ~nv.called => nvmlResult = "NVML_SUCCESS"
            /\ init.opens = 0 => ~openThrows
            /\ notices' = shown
            /\ nvmlInitialized' = nv.initialized
            /\ computer' = init.computer
            /\ openTrees' = openTrees + Opened(init)
            /\ call' = [NoCall EXCEPT !.op = "SmartieInit", !.threw = init.threw,
                                      !.opens = init.opens,
                                      !.vendor = IF nv.called THEN <<"nvmlInit">> ELSE << >>,
                                      !.status = nvmlResult]
            /\ ret' = ""
            /\ UNCHANGED <<isAdmin, tree>>

\* SmartieFini with the Close() outside the if.
SmartieFini_CloseAlways ==
    LET close == HardwareMonitor_Close(computer)
    IN  /\ nvmlInitialized' = FALSE
        /\ computer' = close.computer
        /\ openTrees' = openTrees - Closed(close, computer)
        /\ call' = [NoCall EXCEPT !.op = "SmartieFini", !.closes = close.closes,
                                  !.vendor = IF nvmlInitialized THEN <<"nvmlShutdown">>
                                             ELSE << >>]
        /\ ret' = ""
        /\ UNCHANGED <<isAdmin, tree, notices>>

SmartieFini ==
    LET close == IF nvmlInitialized THEN HardwareMonitor_Close(computer)
                 ELSE [computer |-> computer, closes |-> 0]
    IN  /\ nvmlInitialized' = FALSE
        /\ computer' = close.computer
        /\ openTrees' = openTrees - Closed(close, computer)
        /\ call' = [NoCall EXCEPT !.op = "SmartieFini", !.closes = close.closes,
                                  !.vendor = IF nvmlInitialized THEN <<"nvmlShutdown">>
                                             ELSE << >>]
        /\ ret' = ""
        /\ UNCHANGED <<isAdmin, tree, notices>>

\* Metric names the host may pass: the supported ones and some that no
\* branch matches (wrong case, a longer name, the empty string, a name of
\* the other domain).
CpuParams == CpuNames \cup {"load", "Fan_RPMs", ""}
GpuParams == GpuNames \cup {"temp", "Mem_Clocks", "Fan_RPM"}
Flags == {"0", "1"}

\* function1, with the lazy HardwareMonitor::Initialize() of its lookup.
\* An exception of Open() leaves function1 without a return value.  The
\* inputs are drawn as the call consumes them: Open() can throw only if it
\* is called, a value is read only from a sensor that was found.
queryCpu ==
    \E param1 \in CpuParams :
      \E openThrows \in IF CpuLookupCalled(param1)
                           /\ HardwareMonitor_Initialize(computer, FALSE).opens > 0
                        THEN BOOLEAN ELSE {FALSE} :
        LET init == IF CpuLookupCalled(param1)
                    THEN HardwareMonitor_Initialize(computer, openThrows)
                    ELSE [computer |-> computer, opens |-> 0, threw |-> FALSE]
            hw == Hardware(init.computer, tree)
            sensor == IF init.threw THEN << >> ELSE CpuSensorRead(hw, param1)
        IN  \E value \in IF sensor = << >> THEN {<< >>} ELSE SensorValues,
               param2 \in Flags :
                /\ computer' = init.computer
                /\ openTrees' = openTrees + Opened(init)
                /\ call' = [NoCall EXCEPT !.op = "function1", !.param1 = param1,
                                          !.param2 = param2, !.threw = init.threw,
                                          !.opens = init.opens, !.sensor = sensor,
                                          !.value = value]
                /\ ret' = IF init.threw THEN ""
                          ELSE function1(hw, param1, param2, value)
                /\ UNCHANGED <<isAdmin, tree, nvmlInitialized, notices>>

\* function2.  The inputs are drawn as the call consumes them: a status
\* for each vendor call it makes, a raw value for a query that succeeds.
queryGpu ==
    \E param1 \in GpuParams, param2 \in Flags :
      \E handleStatus \in
            IF function2(nvmlInitialized, param1, param2,
                         "NVML_SUCCESS", "NVML_SUCCESS", NoRaw).vendor = << >>
            THEN {"NVML_SUCCESS"} ELSE NvmlHandleStatuses :
        LET queried == Len(function2(nvmlInitialized, param1, param2, handleStatus,
                                     "NVML_SUCCESS", NoRaw).vendor) = 2
        IN  \E status \in IF queried THEN NvmlQueryStatuses ELSE {"NVML_SUCCESS"} :
              \E raw \in IF queried /\ status = "NVML_SUCCESS"
                         THEN GpuRaw(param1) ELSE {NoRaw} :
                LET r == function2(nvmlInitialized, param1, param2,
                                   handleStatus, status, raw)
                IN  /\ call' = [NoCall EXCEPT !.op = "function2", !.param1 = param1,
                                              !.param2 = param2, !.vendor = r.vendor,
                                              !.handleStatus = handleStatus,
                                              !.status = status, !.raw = raw]
                    /\ ret' = r.ret
                    /\ UNCHANGED <<isAdmin, tree, nvmlInitialized, computer,
                                   openTrees, notices>>

Init ==
    /\ isAdmin \in BOOLEAN
    /\ tree \in Trees
    /\ nvmlInitialized = FALSE
    /\ computer = "nullptr"
    /\ openTrees = 0
    /\ notices = [admin |-> 0, nvml |-> 0, exception |-> 0]
    /\ call = NoCall
    /\ ret = ""

Next == SmartieInit \/ SmartieFini \/ queryCpu \/ queryGpu

Spec == Init /\ [][Next]_vars

---------------------------------------------------------------------------
(* The claims.                                                             *)

\* C1: whenever nvmlInitialized is unset, function2 returns exactly
\* "NVML not initialized", whatever the metric name and the units flag, and
\* makes no NVML call (no handle lookup, no query).
C1_GpuQueryGated ==
    (call.op = "function2" /\ ~nvmlInitialized)
        => (ret = "NVML not initialized" /\ call.vendor = << >>)

\* A GPU query answered after an initialize() whose nvmlInit() failed.
C1_Witness ==
    /\ call.op = "function2" /\ call.param1 = "Power" /\ call.param2 = "1"
    /\ ~nvmlInitialized /\ notices.nvml = 1
    /\ ret = "NVML not initialized"

SupportedCpu == {"Load", "Power", "Temp", "Fan_RPM", "Fan", "Clock"}
SupportedGpu ==
    {"Load", "Power", "Limit", "Temp", "Fan", "Clock", "Mem_Clock", "Mem_Alloc", "Mem_Usage"}

Unsupported ==
    \/ call.op = "function1" /\ call.param1 \notin SupportedCpu
    \/ call.op = "function2" /\ call.param1 \notin SupportedGpu

\* C2 as stated: in every state, for both functions and either units flag,
\* a metric name that is not one of the supported names returns exactly
\* "Invalid parameter".
C2_Original == Unsupported => ret = "Invalid parameter"

\* C2 as amended: function1 returns "Invalid parameter" for every
\* unsupported name; function2 does so once the flag is set and the device
\* handle was obtained, and before that returns "NVML not initialized"
\* (flag unset) or "GPU handle error: <status text>" (no handle), whatever
\* the name.
C2_InvalidParameter ==
    Unsupported =>
        IF call.op = "function2" /\ ~nvmlInitialized
            THEN ret = "NVML not initialized"
        ELSE IF call.op = "function2" /\ call.handleStatus /= "NVML_SUCCESS"
            THEN ret = "GPU handle error: GPU is lost"
        ELSE ret = "Invalid parameter"

\* An unsupported GPU name that reached the dispatch.
C2_Witness ==
    /\ call.op = "function2" /\ call.param1 = "Mem_Clocks"
    /\ nvmlInitialized /\ call.handleStatus = "NVML_SUCCESS"
    /\ ret = "Invalid parameter"

\* C3: the tree is opened only from a null handle and closed only by
\* SmartieFini; an initialize() directly after another, and any CPU query
\* or initialize() made while the handle is set, calls no Open() and leaves
\* the handle as it is; at most one tree is ever open and not closed.
C3_TreeOpenedOnce ==
    /\ [](openTrees <= 1)
    /\ [](call.closes > 0 => call.op = "SmartieFini")
    /\ [][ /\ call'.opens > 0 => computer = "nullptr"
           /\ (call'.op \in {"SmartieInit", "function1"} /\ computer /= "nullptr")
                => (call'.opens = 0 /\ computer' = computer /\ openTrees' = openTrees)
           /\ (call.op = "SmartieInit" /\ call'.op = "SmartieInit")
                => (call'.opens = 0 /\ computer' = computer /\ openTrees' = openTrees)
         ]_vars

\* An initialize() that found the tree open and left it alone.
C3_Witness ==
    /\ call.op = "SmartieInit" /\ call.opens = 0
    /\ computer = "opened" /\ openTrees = 1

\* C4 as stated: whenever shutdown() returns, the flag is unset and the
\* tree handle is null.
C4_Original ==
    call.op = "SmartieFini" => (~nvmlInitialized /\ computer = "nullptr")

C6_Original == notices.admin <= 1 /\ notices.nvml <= 1

\* C6 as amended: each problem is reported once per initialize() call in
\* which it occurs, and by nothing else.  A call displays the administrator
\* notice exactly when the process lacks administrator rights, and the NVML
\* notice exactly when it found the flag unset and its nvmlInit() failed;
\* no other function displays a notice.
C6_OncePerCall ==
    [][ IF call'.op = "SmartieInit"
        THEN /\ notices'.admin = notices.admin + (IF isAdmin THEN 0 ELSE 1)
             /\ notices'.nvml = notices.nvml
                    + (IF ~nvmlInitialized /\ ~nvmlInitialized' THEN 1 ELSE 0)
        ELSE notices' = notices
      ]_vars

\* One initialize() that displayed both notices.
C6_Witness ==
    /\ call.op = "SmartieInit" /\ ~isAdmin /\ ~nvmlInitialized
    /\ notices.admin = 1 /\ notices.nvml = 1

StartsWith(s, prefix) == Len(s) >= Len(prefix) /\ SubSeq(s, 1, Len(prefix)) = prefix

IsErrorString(s) ==
    \/ StartsWith(s, "Error reading ")
    \/ StartsWith(s, "Error getting ")
    \/ StartsWith(s, "GPU handle error")
    \/ s = "NVML not initialized"
    \/ s = "Invalid parameter"

Units == {"%", "W", "°C", "RPM", "GHz", "Gb"}
HasUnit(s) == \E u \in Units : EndsWith(s, u)

\* A decimal number: digits, with at most a decimal point among them.
IsNumber(s) ==
    /\ Len(s) > 0
    /\ \A i \in 1..Len(s) :
        SubSeq(s, i, i) \in {"0", "1", "2", "3", "4", "5", "6", "7", "8", "9", "."}
    /\ SubSeq(s, 1, 1) /= "." /\ SubSeq(s, Len(s), Len(s)) /= "."

UnitOf(op, param1) ==
    CASE param1 \in {"Load", "Fan", "Mem_Usage"} -> "%"
      [] param1 = "Power" -> "W"
      [] param1 = "Temp" -> "°C"
      [] param1 = "Fan_RPM" -> "RPM"
      [] param1 \in {"Clock", "Mem_Clock"} -> "GHz"
      [] param1 = "Mem_Alloc" -> "Gb"

Returned(op) == call.op = op /\ ~call.threw

\* The call asked for a supported metric that has a unit.
UnitMetric ==
    \/ Returned("function1") /\ call.param1 \in SupportedCpu
    \/ Returned("function2") /\ call.param1 \in SupportedGpu \ {"Limit"}

\* Every vendor call of the GPU query succeeded.
GpuSucceeded ==
    /\ nvmlInitialized
    /\ call.handleStatus = "NVML_SUCCESS" /\ call.status = "NVML_SUCCESS"

\* C7: for every supported metric with a unit, under flag "0" the string
\* returned never ends in a unit suffix and a reading is a bare number;
\* under flag "1" every reading is a number followed by the metric's own
\* suffix; a GPU query whose vendor calls all succeed returns a reading;
\* and no error string ends in a unit suffix under either flag.
C7_UnitSuffix ==
    /\ (Returned("function1") \/ Returned("function2"))
            => (IsErrorString(ret) => ~HasUnit(ret))
    /\ UnitMetric =>
        /\ call.param2 = "0" => ~HasUnit(ret)
        /\ (call.param2 = "0" /\ ~IsErrorString(ret)) => IsNumber(ret)
        /\ (call.param2 = "1" /\ ~IsErrorString(ret)) =>
            LET unit == UnitOf(call.op, call.param1)
            IN  /\ EndsWith(ret, unit)
                /\ IsNumber(SubSeq(ret, 1, Len(ret) - Len(unit)))
        /\ (call.op = "function2" /\ GpuSucceeded) => ~IsErrorString(ret)

\* A temperature returned with its unit.
C7_Witness ==
    /\ Returned("function1") /\ call.param1 = "Temp" /\ call.param2 = "1"
    /\ call.value = <<85>> /\ ret = "42°C"

\* The tree the lookup of the last call scanned.
Scanned == Hardware(computer, tree)

\* A CPU node holds a sensor of the type, its name passing the test.
HasPackage(n) == \E i \in 1..(Len(n) - 6) : SubSeq(n, i, i + 6) = "Package"

\* The names of the sensors on the top-level nodes that hold "Package".
PackageNames(hw) ==
    { n \in UNION { { hw[i].sensors[k].name : k \in DOMAIN hw[i].sensors } :
                    i \in DOMAIN hw } : HasPackage(n) }

CpuHas(hw, type, names) ==
    \E i \in DOMAIN hw :
        /\ hw[i].type = "Cpu"
        /\ \E k \in DOMAIN hw[i].sensors :
            /\ hw[i].sensors[k].type = type
            /\ hw[i].sensors[k].name \in names


\* The Fan-type sensors on the sub-hardware nodes of the tree.
FanCount(hw) ==
    Cardinality(
        UNION { UNION { { <<i, j, k>> : k \in { x \in DOMAIN hw[i].sub[j].sensors :
                                                  hw[i].sub[j].sensors[x].type = "Fan" } } :
                        j \in DOMAIN hw[i].sub } :
                i \in DOMAIN hw })

\* The sensor the metric asks for exists in the tree.
SensorExists(hw, param1) ==
    CASE param1 = "Load" -> CpuHas(hw, "Load", {"CPU Total"})
      [] param1 = "Power" ->
            CpuHas(hw, "Power", PackageNames(hw))
      [] param1 = "Temp" -> CpuHas(hw, "Temperature", {"CPU Package"})
      [] param1 = "Clock" -> CpuHas(hw, "Clock", {"CPU Core #1"})
      [] param1 \in {"Fan", "Fan_RPM"} -> FanCount(hw) >= CPU_FAN + 1

ErrorOf(param1) ==
    CASE param1 = "Load" -> "Error reading CPU Load"
      [] param1 = "Power" -> "Error reading CPU Power"
      [] param1 = "Temp" -> "Error reading CPU Temp"
      [] param1 = "Clock" -> "Error reading CPU clock"
      [] param1 \in {"Fan", "Fan_RPM"} -> "Error reading Fan Speed"

\* The reading without its unit, when the units flag asked for one.
Bare(s) ==
    IF call.param2 = "1" /\ EndsWith(s, UnitOf(call.op, call.param1))
    THEN SubSeq(s, 1, Len(s) - Len(UnitOf(call.op, call.param1)))
    ELSE s

CpuMetricCall == Returned("function1") /\ call.param1 \in SupportedCpu

ReadHalves == IF call.value = << >> THEN 0 ELSE call.value[1]

\* The reading is one the conversion turns into a negative number: -1.0 or
\* less for the integer metrics, anything below zero for the clock, enough
\* below zero for the percentage of the fan to reach -1.
ConvertsNegative(param1) ==
    CASE param1 \in {"Load", "Power", "Temp", "Fan_RPM"} -> ReadHalves <= -2
      [] param1 = "Clock" -> ReadHalves < 0
      [] param1 = "Fan" -> ReadHalves * 100 <= 0 - 2 * CPU_SPEED

PowerCall == Returned("function2") /\ call.param1 = "Power" /\ GpuSucceeded

\* C9: a raw reading of p milliwatts is displayed as the integer n nearest
\* to p / 1000, halves rounded up (1000 n <= p + 500 < 1000 n + 1000),
\* followed by "W" when units are on; 123456 gives "123W", and remainders
\* of exactly 500 round up.
C9_PowerRoundHalfUp ==
    PowerCall =>
        LET p == call.raw.value
            unit == IF call.param2 = "1" THEN "W" ELSE ""
        IN  /\ \E n \in {p \div 1000, p \div 1000 + 1} :
                /\ ret = FormatU(n) \o unit
                /\ 1000 * n <= p + 500 /\ p + 500 < 1000 * n + 1000
            /\ (p = 123456 /\ call.param2 = "1") => ret = "123W"
            /\ (p = 500 /\ call.param2 = "0") => ret = "1"
            /\ (p = 123500 /\ call.param2 = "1") => ret = "124W"
            /\ (p = 499 /\ call.param2 = "0") => ret = "0"

\* The reading of the specification's example.
C9_Witness ==
    PowerCall /\ call.raw.value = 123456 /\ call.param2 = "1" /\ ret = "123W"

\* Maximum speeds the plugin may be configured with.
MaxSpeeds == {1, 1000, CPU_SPEED, 2200, 5000}

\* The fan sensor was found and read.
FanCall == Returned("function1") /\ call.param1 = "Fan" /\ call.sensor /= << >>

PercentUnit == IF call.param2 = "1" THEN "%" ELSE ""

\* The first two parts of C10, which hold as stated: a fan that reads 0 RPM
\* or has no value yields "0" ("0%") for every maximum, a reading equal to
\* the maximum yields "100" ("100%").
FanEnds ==
    /\ ReadHalves = 0 =>
        /\ ret = "0" \o PercentUnit
        /\ \A mx \in MaxSpeeds : GetCpuFanSpeed(Scanned, CPU_FAN, mx, call.value) = 0
    /\ ReadHalves = 2 * CPU_SPEED =>
        /\ ret = "100" \o PercentUnit
        /\ \A mx \in MaxSpeeds : GetCpuFanSpeed(Scanned, CPU_FAN, mx, <<2 * mx>>) = 100

\* The integer part of the exact quotient (r / maxRPM) * 100, r in halves.
ExactPercent(halves, maxRPM) == (halves * 100) \div (2 * maxRPM)

---------------------------------------------------------------------------
(* C11: which sensor the fan lookups read.                                 *)

\* The Fan-type sensors on the sub-hardware nodes, as paths <<i, s, k>>.
SubFans(hw) ==
    UNION { UNION { { <<i, j, k>> : k \in { x \in DOMAIN hw[i].sub[j].sensors :
                                              hw[i].sub[j].sensors[x].type = "Fan" } } :
                    j \in DOMAIN hw[i].sub } :
            i \in DOMAIN hw }

\* The Fan-type sensors the top-level nodes hold themselves, as <<i, 0, k>>.
OwnFans(hw) ==
    UNION { { <<i, 0, k>> : k \in { x \in DOMAIN hw[i].sensors :
                                      hw[i].sensors[x].type = "Fan" } } :
            i \in DOMAIN hw }

\* Encounter order of a depth-first walk: a node's own sensors, then its
\* sub-hardware nodes in order, each with its sensors in order.
Before3(p, q) ==
    \/ p[1] < q[1]
    \/ p[1] = q[1] /\ p[2] < q[2]
    \/ p[1] = q[1] /\ p[2] = q[2] /\ p[3] < q[3]

\* The position of a sensor in the count over the set of fans.
PositionIn(fans, p) == Cardinality({ q \in fans : Before3(q, p) })

\* function1 returned from its Fan or Fan_RPM branch.
FanLookupCall == Returned("function1") /\ call.param1 \in {"Fan", "Fan_RPM"}

\* C11 as stated: the Fan-type sensors of the top-level nodes and of their
\* sub-hardware nodes are all counted; the sensor read is the one at the
\* configured index of that count, and none is found only when the whole
\* tree holds fewer than index + 1 Fan-type sensors.
C11_Original ==
    FanLookupCall =>
        LET all == SubFans(Scanned) \cup OwnFans(Scanned)
        IN  /\ call.sensor = << >> => Cardinality(all) < CPU_FAN + 1
            /\ call.sensor /= << >> =>
                    call.sensor \in all /\ PositionIn(all, call.sensor) = CPU_FAN

\* The fan lookups for the index idx on the tree scanned: the sensor they
\* stop at and the integers they return.
FanLookupAt(idx) ==
    LET fans == SubFans(Scanned)
        p == FanSensor(Scanned, idx)
        rpm == GetCpuFanSpeedRPM(Scanned, idx, CPU_SPEED, call.value)
        pct == GetCpuFanSpeed(Scanned, idx, CPU_SPEED, call.value)
    IN  IF Cardinality(fans) < idx + 1
        THEN p = << >> /\ rpm = -1 /\ pct = -1
        ELSE /\ p \in fans
             /\ PositionIn(fans, p) = idx
             /\ rpm = ToInt(ReadHalves)
             /\ ReadHalves >= 0 => pct >= 0

\* C11 as amended: every top-level node and every one of its sub-hardware
\* nodes (of any hardware type) is visited, but only the Fan-type sensors
\* of the sub-hardware nodes are counted, in encounter order; Fan-type
\* sensors a top-level node holds itself are neither counted nor read.
\* The sensor read is the one whose zero-based position in that count is
\* the index, for the configured index and for every index up to
\* MaxFanIndex; no sensor is found, and both lookups return -1, exactly
\* when the sub-hardware nodes together hold fewer than index + 1 Fan-type
\* sensors, and function1 then returns "Error reading Fan Speed".  A sensor
\* found yields its own reading converted, never a negative number for a
\* reading that is not negative.
C11_FanScan ==
    FanLookupCall =>
        /\ \A idx \in 0..MaxFanIndex : FanLookupAt(idx)
        /\ call.sensor = FanSensor(Scanned, CPU_FAN)
        /\ call.sensor = << >> <=> Cardinality(SubFans(Scanned)) < CPU_FAN + 1
        /\ call.sensor /= << >> =>
                /\ call.sensor \in SubFans(Scanned)
                /\ PositionIn(SubFans(Scanned), call.sensor) = CPU_FAN
        /\ call.sensor = << >> => ret = "Error reading Fan Speed"

\* The server: the fan on the motherboard node itself is passed over, and
\* index 2 is reached on the sub-hardware node of the second CPU.
C11_Witness ==
    /\ FanLookupCall /\ call.param1 = "Fan_RPM" /\ tree = TreeServer
    /\ call.sensor = <<3, 1, 1>> /\ call.value = <<85>> /\ ret = "42"

=============================================================================
